---------------------------- MODULE Spec2Model ----------------------------
(***************************************************************************)
(* CEEMS: the retention-aware TSDB load balancer (pkg/lb/serverpool,       *)
(* pkg/lb/frontend) and the cgroup discovery pass of the compute-unit      *)
(* collector (pkg/collector), as state machines.                           *)
(*                                                                         *)
(* Spec          the server pool, the router's Target and the frontend's   *)
(*               Serve, with the health probe and other clients' traffic   *)
(*               interleaved between Target's atomic reads.                *)
(* SpecDiscover  cgroupManager.discover over a directory tree.             *)
(***************************************************************************)
EXTENDS Integers, Sequences, FiniteSets, TLC

(***************************************************************************)
(* Bounds of the model.                                                    *)
(***************************************************************************)
MaxBackends == 2
MaxConns == 1
MaxDirs == 4
MaxCPU == 11
MaxIndex == 3
MaxRanges == 2

\* Cluster ids a request or an Add may name.
IDs == {"a", "b"}
\* The cluster ids requests are made for.  The two ids are interchangeable:
\* every pool has its mirror image with the ids swapped, so the requests
\* for one id meet every case, the unknown id included.
RequestIDs == {"a"}
\* Retention periods of the backends and query windows of the requests,
\* in one unit of time.Duration.
Retentions == {1, 2}
QueryPeriods == {1, 2}

\* A nil backend.Server.
NIL == 0
\* r.Context().Value(QueryParamsContextKey{}): nil, or the *QueryParams the
\* middleware has set, of which Serve reads the queryPeriod.
NoParams == << >>
Params == {NoParams} \cup {<<d>> : d \in QueryPeriods}
\* math.MaxInt32
MaxInt32 == 2147483647
\* Default retry count of the frontend.
RetryBudget == 1
\* math.MaxUint64, the all-ones value of a limit, as far as the integers
\* of the model go
MaxUint64 == 2147483647
\* A limit that was set on the cgroup, and the totals of the host.
CgroupLimit == 16
HostMemTotal == 64
HostSwapTotal == 32
\* The values the stats of a readable cgroup hold.
StatCPUUser == 3
StatCPUSystem == 2
StatMemoryUsed == 6
StatMemoryRSS == 4
StatMemoryCache == 2
StatSwapUsed == 1
StatFailCount == 1
StatCPUPressure == 1
StatMemoryPressure == 2
StatIOPressure == 3
StatRbytes == 4
StatWbytes == 3
StatRios == 2
StatWios == 1
StatHcaHandles == 1
StatHcaObjects == 2

VARIABLES
    \* ---- load balancer ----
    phase,              \* "startup" (Add calls) or "serving" (requests)
    backends,           \* resourceBased.backends: cluster id -> sequence of backends
    retention,          \* backend -> RetentionPeriod()
    alive,              \* backend -> IsAlive()
    conns,              \* backend -> ActiveConnections()
    added,              \* history: the Add calls so far, <<id, backend>>
    pc,                 \* position of the request in Serve / Target
    rid,                \* cluster id of the request
    rparams,            \* query params of the request's context, or NoParams
    queryPeriod,        \* Serve's queryPeriod, Target's d
    i,                  \* loop index of Target's two loops
    targetBackends,     \* Target's local
    retentionPeriods,   \* Target's local
    minRetentionPeriod, \* Target's local
    targetBackend,      \* Target's local
    activeConnections,  \* Target's local
    seenAlive,          \* history: IsAlive() as read by the first loop, per index
    seenConns,          \* history: <<backend, IsAlive(), ActiveConnections()>> at each
                        \*   iteration of the second loop
    touched,            \* history: the backends whose liveness or connection
                        \*   count another thread changed since Target was entered
    target,             \* Serve's target: what Target returned
    handed,             \* history: the backends the request was handed to, in order
    retries,            \* retry count carried in the request's context
    response,           \* what the client got: "none", "200", "503", "error"
    \* ---- cgroup discovery ----
    dphase,             \* "setup", "walk", "done"
    tree,               \* directories under mountPoint, as paths relative to it
    walk,               \* directories WalkDir has still to visit, in its order
    visited,            \* history: directories the callback has handled, in order
    lookups,            \* history: <<id, pid>> -> in how many cgroup.procs files
                        \*   of directories with the id the pid was read and
                        \*   found in /proc
    cgroups,            \* discover's cgroups slice
    cgroupProcs,        \* discover's cgroupProcs map
    cgroupChildren,     \* discover's cgroupChildren map
    derr,               \* discover's returned error: "nil", or the error that
                        \*   WalkDir reported: "ENOENT", "EACCES"
    gone,               \* history: the directory that vanished after its
                        \*   parent had listed it, if one did
    \* ---- parseCPUSet ----
    pphase,             \* "none", "file" (the string is there), "parsed"
    cpuset,             \* the string handed to parseCPUSet
    denoted,            \* history: the cpu indices the string was written for
    formatted,          \* history: the string is the kernel's rendering of a set
    parsed,             \* what parseCPUSet returned: cpus and err
    \* ---- collector ----
    cphase,             \* "new", "ready", "update", "read", "emitted"
    mode,               \* cgroupManager.mode: "unified" (v2) or "legacy" (v1)
    opts,               \* cgroupCollector.opts
    hostMemInfo,        \* cgroupCollector.hostMemInfo
    unit,               \* the cgroup of the unit as the read finds it
    metric,             \* the cgMetric of the unit
    samples,            \* what Update has sent on the channel
    \* ---- doUpdate ----
    uphase,             \* "none", "spawn" (the loop of go statements, then
                        \*   wg.Wait), "send", "done"
    readings,           \* per unit, the cgroup as its read finds it
    metrics,            \* the metrics slice handed to Update
    wg,                 \* the WaitGroup's counter
    ui,                 \* doUpdate's loop variable i
    launched,           \* per goroutine started, the idx it was given
    finished,           \* history: the goroutines that have returned, in order
    wrote,              \* history: per element of metrics, the goroutines
                        \*   that wrote to it
    deadline,           \* the scrape request's deadline has passed
    ch,                 \* what Update has sent on ch
    \* ---- emissions collector ----
    ephase,             \* "new", "idle", "asking" (the request to RTE is out)
    countryCode,        \* emissionsCollector.countryCode
    energyData,         \* emissionsCollector.energyData
    prevReadTime,       \* emissionsCollector.prevReadTime
    prevEmissionFactor, \* emissionsCollector.prevEmissionFactor
    clock,              \* time.Now().Unix(), counted from the collector's making
    ticks,              \* how many times the clock has advanced
    lastRequest,        \* history: when the last request to RTE was sent
    scrape,             \* history: the last scrape, see NoScrape
    \* ---- parseSacctCmdOutput ----
    jphase,             \* "none", "spawn" (the loop of go statements, then
                        \*   wg.Wait), "returned"
    sacctOutputLines,   \* the lines of the output after the header
    interval,           \* <<intStartTS, intEndTS>>
    jobs,               \* the jobs slice
    numJobs,            \* numJobs
    jwg,                \* the WaitGroup's counter
    iline,              \* the loop variable iline
    gpc,                \* per line, its goroutine: "none", "run", "locked"
                        \*   (it holds jobLock), "done"
    numRead,            \* per goroutine, numJobs as it read it for numJobs += 1
    jobLock             \* the goroutine that holds jobLock, or 0

lbvars == <<phase, backends, retention, alive, conns, added, pc, rid, rparams,
            queryPeriod, i, targetBackends, retentionPeriods, minRetentionPeriod,
            targetBackend, activeConnections, seenAlive, seenConns, touched, target,
            handed, retries, response>>
dvars == <<dphase, tree, walk, visited, lookups, cgroups, cgroupProcs,
          cgroupChildren, derr, gone>>
pvars == <<pphase, cpuset, denoted, formatted, parsed>>
cvars == <<cphase, mode, opts, hostMemInfo, unit, metric, samples>>
uvars == <<uphase, readings, metrics, wg, ui, launched, finished, wrote,
           deadline, ch>>
evars == <<ephase, countryCode, energyData, prevReadTime, prevEmissionFactor,
           clock, ticks, lastRequest, scrape>>
jvars == <<jphase, sacctOutputLines, interval, jobs, numJobs, jwg, iline, gpc,
           numRead, jobLock>>
restvars == <<uvars, evars, jvars>>
svars == <<pvars, cvars, restvars>>
vars == <<lbvars, dvars, svars>>

(***************************************************************************)
(* Helpers.                                                                *)
(***************************************************************************)
Range(s) == {s[k] : k \in DOMAIN s}

\* slices.Min
SeqMin(s) == CHOOSE m \in Range(s) : \A x \in Range(s) : m <= x

SetMin(S) == CHOOSE m \in S : \A x \in S : m <= x

\* The backends created so far.
Handles == 1..Len(retention)

(***************************************************************************)
(* ServerPool: resourceBased.Add, Backends, Size.                          *)
(***************************************************************************)
\* s.backends[id] of a Go map: the nil slice for an absent key.
BackendsOf(id) == IF id \in DOMAIN backends THEN backends[id] ELSE <<>>

Size(id) == Len(BackendsOf(id))

\* A mutation of AddBackend: one list of backends is shared by all cluster ids.
AddBackendShared(id, b) == [k \in IDs |-> Append(BackendsOf(k), b)]

\* A mutation of AddBackend: the new backend is put in front.
AddBackendPrepend(id, b) ==
    [k \in (DOMAIN backends) \cup {id} |->
        IF k = id THEN <<b>> \o BackendsOf(id) ELSE backends[k]]

\* s.backends[id] = append(s.backends[id], b)
AddBackend(id, b) ==
    [k \in (DOMAIN backends) \cup {id} |->
        IF k = id THEN Append(BackendsOf(id), b) ELSE backends[k]]

InitLB ==
    /\ phase = "startup"
    /\ backends = << >>
    /\ retention = << >>
    /\ alive = << >>
    /\ conns = << >>
    /\ added = << >>
    /\ pc = "idle"
    /\ rid = "a"
    /\ rparams = NoParams
    /\ queryPeriod = 0
    /\ i = 0
    /\ targetBackends = << >>
    /\ retentionPeriods = << >>
    /\ minRetentionPeriod = 0
    /\ targetBackend = NIL
    /\ activeConnections = 0
    /\ seenAlive = << >>
    /\ seenConns = << >>
    /\ touched = {}
    /\ target = NIL
    /\ handed = << >>
    /\ retries = 0
    /\ response = "none"

reqvars == <<pc, rid, rparams, queryPeriod, i, targetBackends, retentionPeriods,
             minRetentionPeriod, targetBackend, activeConnections, seenAlive,
             seenConns, target, handed, retries, response>>
tgtvars == <<targetBackends, retentionPeriods, minRetentionPeriod, targetBackend,
             activeConnections, seenAlive, seenConns, touched>>
poolvars == <<phase, backends, retention, added>>

\* Startup: a new backend with retention period r is registered under id.
Add(id, r) ==
    /\ phase = "startup"
    /\ Len(retention) < MaxBackends
    /\ LET b == Len(retention) + 1 IN
        /\ backends' = AddBackend(id, b)
        /\ added' = Append(added, <<id, b>>)
    /\ retention' = Append(retention, r)
    /\ alive' = Append(alive, TRUE)
    /\ conns' = Append(conns, 0)
    /\ UNCHANGED <<phase, reqvars, touched, dvars, svars>>

\* The pool is written only at startup; then the server starts.
Start ==
    /\ phase = "startup"
    /\ phase' = "serving"
    /\ UNCHANGED <<backends, retention, alive, conns, added, reqvars, touched,
                   dvars, svars>>


(***************************************************************************)
(* Backend (pkg/lb/backend): liveness is set by a periodic health probe,   *)
(* the connection count by every forward, those of other requests too.     *)
(***************************************************************************)
\* touched after another thread has written to backend b: of the backends
\* Target reads, those written to since Target was entered, kept until Serve
\* has used what Target returned.
Touched(b) ==
    IF pc \in {"scan", "select", "serveTarget"} /\ b \in Range(BackendsOf(rid))
    THEN touched \cup {b}
    ELSE touched

HealthProbe(b) ==
    /\ phase = "serving"
    /\ alive' = [alive EXCEPT ![b] = ~alive[b]]
    /\ touched' = Touched(b)
    /\ UNCHANGED <<poolvars, conns, reqvars, dvars, svars>>

\* 1 while the request of the model is being forwarded to b, else 0.
Ours(b) == IF pc = "forward" /\ handed[Len(handed)] = b THEN 1 ELSE 0

\* The requests in flight other than the request of the model.
RECURSIVE SumSeq(_)
SumSeq(s) == IF s = << >> THEN 0 ELSE s[1] + SumSeq(Tail(s))

Others == SumSeq(conns) - (IF pc = "forward" THEN 1 ELSE 0)

\* Another request is forwarded to b.
OtherForward(b) ==
    /\ phase = "serving"
    /\ Others < MaxConns
    /\ conns' = [conns EXCEPT ![b] = conns[b] + 1]
    /\ touched' = Touched(b)
    /\ UNCHANGED <<poolvars, alive, reqvars, dvars, svars>>

\* Another request's response comes back from b.
OtherResponse(b) ==
    /\ phase = "serving"
    /\ conns[b] - Ours(b) > 0
    /\ conns' = [conns EXCEPT ![b] = conns[b] - 1]
    /\ touched' = Touched(b)
    /\ UNCHANGED <<poolvars, alive, reqvars, dvars, svars>>

(***************************************************************************)
(* Frontend: loadBalancer.Serve, up to the call of Target.                 *)
(***************************************************************************)
\* A request arrives; the middleware has put its query params, if any, in
\* the context.
Request(id, p) ==
    /\ phase = "serving"
    /\ pc \in {"idle", "done"}
    /\ pc' = "serve"
    /\ rid' = id
    /\ rparams' = p
    /\ queryPeriod' = 0
    /\ i' = 0
    /\ target' = NIL
    /\ handed' = << >>
    /\ retries' = 0
    /\ response' = "none"
    /\ targetBackends' = << >>
    /\ retentionPeriods' = << >>
    /\ minRetentionPeriod' = 0
    /\ targetBackend' = NIL
    /\ activeConnections' = 0
    /\ seenAlive' = << >>
    /\ seenConns' = << >>
    /\ touched' = {}
    /\ UNCHANGED <<poolvars, alive, conns, dvars, svars>>

\* queryPeriod of Serve: zero when the context holds no query params.
QueryPeriodOf(p) == IF p = NoParams THEN 0 ELSE p[1]

\* Serve reads the query period and calls Target.
ServeBegin ==
    /\ pc = "serve"
    /\ queryPeriod' = QueryPeriodOf(rparams)
    /\ pc' = "target"
    /\ UNCHANGED <<poolvars, alive, conns, rid, rparams, i, tgtvars, target,
                   handed, retries, response, dvars, svars>>

(***************************************************************************)
(* RetentionRouter: resourceBased.Target(id, d), one step per atomic read  *)
(* of a backend.                                                           *)
(***************************************************************************)
\* _, ok := s.backends[id]
KnownID(id) == id \in DOMAIN backends

\* Entry: an unknown id returns nil; otherwise the locals are declared.
TargetBegin ==
    /\ pc = "target"
    /\ IF ~KnownID(rid)
       THEN /\ target' = NIL
            /\ pc' = "serveTarget"
            /\ i' = 0
       ELSE /\ pc' = "scan"
            /\ i' = 1
            /\ target' = NIL
    /\ targetBackend' = NIL
    /\ targetBackends' = << >>
    /\ retentionPeriods' = << >>
    /\ minRetentionPeriod' = 0
    /\ activeConnections' = 0
    /\ seenAlive' = << >>
    /\ seenConns' = << >>
    /\ touched' = {}
    /\ UNCHANGED <<poolvars, alive, conns, rid, rparams, queryPeriod, handed,
                   retries, response, dvars, svars>>

\* A mutation of Eligible: a retention period equal to d is accepted.
EligibleNonStrict(d, b) == d <= retention[b]

\* d < s.backends[id][i].RetentionPeriod()
Eligible(d, b) == d < retention[b]

\* One iteration of the first loop: backend i of the cluster is examined.
TargetScan ==
    /\ pc = "scan"
    /\ i <= Size(rid)
    /\ LET b == BackendsOf(rid)[i] IN
        /\ seenAlive' = Append(seenAlive, alive[b])
        /\ IF alive[b] /\ Eligible(queryPeriod, b)
           THEN /\ targetBackends' = Append(targetBackends, b)
                /\ retentionPeriods' = Append(retentionPeriods, retention[b])
           ELSE UNCHANGED <<targetBackends, retentionPeriods>>
    /\ i' = i + 1
    /\ UNCHANGED <<poolvars, alive, conns, pc, rid, rparams, queryPeriod,
                   minRetentionPeriod, targetBackend, activeConnections,
                   seenConns, touched, target, handed, retries, response,
                   dvars, svars>>

\* A mutation of MinRetention: the largest retention period is taken.
MinRetentionMax(rps) == CHOOSE m \in Range(rps) : \A x \in Range(rps) : m >= x

\* minRetentionPeriod := slices.Min(retentionPeriods)
MinRetention(rps) == SeqMin(rps)

\* After the first loop: none eligible, one eligible, or the second loop.
TargetCount ==
    /\ pc = "scan"
    /\ i > Size(rid)
    /\ IF Len(targetBackends) = 0
       THEN /\ target' = targetBackend
            /\ pc' = "serveTarget"
            /\ UNCHANGED <<targetBackend, minRetentionPeriod, activeConnections, i>>
       ELSE IF Len(targetBackends) = 1
       THEN /\ targetBackend' = targetBackends[1]
            /\ target' = targetBackends[1]
            /\ pc' = "serveTarget"
            /\ UNCHANGED <<minRetentionPeriod, activeConnections, i>>
       ELSE /\ minRetentionPeriod' = MinRetention(retentionPeriods)
            /\ activeConnections' = MaxInt32
            /\ i' = 1
            /\ pc' = "select"
            /\ UNCHANGED <<targetBackend, target>>
    /\ UNCHANGED <<poolvars, alive, conns, rid, rparams, queryPeriod,
                   targetBackends, retentionPeriods, seenAlive, seenConns, touched,
                   handed, retries, response, dvars, svars>>

\* A mutation of FewerConnections: a backend with as many connections as the
\* best so far replaces it.
FewerConnectionsOrEqual(best, c) == best >= c

\* activeConnections > backendActiveConnections
FewerConnections(best, c) == best > c

\* One iteration of the second loop: eligible backend i is examined again.
TargetSelect ==
    /\ pc = "select"
    /\ i <= Len(targetBackends)
    /\ LET b == targetBackends[i] IN
        /\ seenConns' = Append(seenConns,
               <<b, alive[b],
                 IF alive[b] /\ retentionPeriods[i] = minRetentionPeriod
                 THEN conns[b] ELSE 0>>)
        /\ IF /\ alive[b]
              /\ retentionPeriods[i] = minRetentionPeriod
              /\ FewerConnections(activeConnections, conns[b])
           THEN /\ targetBackend' = b
                /\ activeConnections' = conns[b]
           ELSE UNCHANGED <<targetBackend, activeConnections>>
    /\ i' = i + 1
    /\ UNCHANGED <<poolvars, alive, conns, pc, rid, rparams, queryPeriod,
                   targetBackends, retentionPeriods, minRetentionPeriod,
                   seenAlive, touched, target, handed, retries, response,
                   dvars, svars>>

\* After the second loop: targetBackend, which is nil when every backend of
\* the minimum retention period was found dead.
TargetEnd ==
    /\ pc = "select"
    /\ i > Len(targetBackends)
    /\ target' = targetBackend
    /\ pc' = "serveTarget"
    /\ UNCHANGED <<poolvars, alive, conns, rid, rparams, queryPeriod, i, tgtvars,
                   handed, retries, response, dvars, svars>>


(***************************************************************************)
(* Frontend: loadBalancer.Serve, from Target's return on.                  *)
(***************************************************************************)
\* A mutation of Dispatch: the first backend of the cluster is served
\* whatever Target returned.
DispatchFirst(t) == IF Size(rid) > 0 THEN BackendsOf(rid)[1] ELSE t

\* The backend Serve hands the request to: target, when it is not nil.
Dispatch(t) == t

\* if target != nil { target.Serve(w, r); return }; http.Error(w, ..., 503)
ServeTarget ==
    /\ pc = "serveTarget"
    /\ LET b == Dispatch(target) IN
        IF b # NIL
        THEN /\ handed' = Append(handed, b)
             /\ conns' = [conns EXCEPT ![b] = conns[b] + 1]
             /\ pc' = "forward"
             /\ UNCHANGED response
        ELSE /\ response' = "503"
             /\ pc' = "done"
             /\ UNCHANGED <<handed, conns>>
    /\ i' = 0
    /\ targetBackends' = << >>
    /\ retentionPeriods' = << >>
    /\ minRetentionPeriod' = 0
    /\ targetBackend' = NIL
    /\ activeConnections' = 0
    /\ seenAlive' = << >>
    /\ seenConns' = << >>
    /\ touched' = {}
    /\ UNCHANGED <<poolvars, alive, rid, rparams, queryPeriod, target, retries, dvars, svars>>

\* Backend.forward returns the backend's response; the counter is decremented.
ForwardOK ==
    /\ pc = "forward"
    /\ LET b == handed[Len(handed)] IN
        conns' = [conns EXCEPT ![b] = conns[b] - 1]
    /\ response' = "200"
    /\ pc' = "done"
    /\ UNCHANGED <<poolvars, alive, rid, rparams, queryPeriod, i, tgtvars,
                   target, handed, retries, dvars, svars>>

\* The backends of cluster id that are alive now, cover d and were not tried.
Candidates(id, d, tried) ==
    {b \in Range(BackendsOf(id)) : alive[b] /\ d < retention[b] /\ b \notin tried}

\* The next-ranked eligible backend: least retention, then fewest
\* connections, then registration order; NIL when there is none.
NextRanked(id, d, tried) ==
    LET C == Candidates(id, d, tried) IN
    IF C = {} THEN NIL
    ELSE LET rmin == SetMin({retention[b] : b \in C})
             T == {b \in C : retention[b] = rmin}
             cmin == SetMin({conns[b] : b \in T})
         IN  SetMin({b \in T : conns[b] = cmin})

\* A mutation of AllowRetry: a failed request is never retried.
AllowRetryNever(n) == FALSE

\* Whether the request's context still allows a retry.
AllowRetry(n) == n < RetryBudget

\* Backend.forward meets a transport failure: the counter is decremented,
\* then the request is retried on the next-ranked eligible backend while the
\* retry budget of its context allows, else the error goes to the client.
ForwardFail ==
    /\ pc = "forward"
    /\ LET b == handed[Len(handed)]
           n == NextRanked(rid, queryPeriod, Range(handed))
       IN  IF AllowRetry(retries)
           THEN /\ retries' = retries + 1
                /\ IF n # NIL
                   THEN /\ handed' = Append(handed, n)
                        /\ conns' = [conns EXCEPT ![b] = conns[b] - 1,
                                                  ![n] = conns[n] + 1]
                        /\ pc' = "forward"
                        /\ UNCHANGED response
                   ELSE /\ conns' = [conns EXCEPT ![b] = conns[b] - 1]
                        /\ response' = "503"
                        /\ pc' = "done"
                        /\ UNCHANGED handed
           ELSE /\ conns' = [conns EXCEPT ![b] = conns[b] - 1]
                /\ response' = "error"
                /\ pc' = "done"
                /\ UNCHANGED <<handed, retries>>
    /\ UNCHANGED <<poolvars, alive, rid, rparams, queryPeriod, i, tgtvars,
                   target, dvars, svars>>

(***************************************************************************)
(* Cgroup discovery: cgroupManager.discover of the Slurm manager.  A       *)
(* directory is its path relative to mountPoint, a sequence of names; the  *)
(* names carry no escaped characters, so the sanitized path is the path.   *)
(***************************************************************************)
\* Directory names, in the lexical order in which WalkDir reads a directory.
SegNames == <<"job_1", "job_2", "step_0", "x">>

Segments == Range(SegNames)

SegRank(seg) == CHOOSE k \in DOMAIN SegNames : SegNames[k] = seg

\* The job number in a name that "/job_([0-9]+)" matches.
JobNumber(seg) ==
    CASE seg = "job_1" -> "1"
      [] seg = "job_2" -> "2"
      [] OTHER -> ""

\* slurmCgroupPathRegex, capture group 1: mountPoint holds the last "/slurm",
\* the lazy (?:.*?) then stops at the first "/job_<digits>" after it.
\* "" when the path does not match.
RECURSIVE CgroupID(_)
CgroupID(p) ==
    IF p = << >> THEN ""
    ELSE IF JobNumber(p[1]) # "" THEN JobNumber(p[1])
    ELSE CgroupID(Tail(p))

\* manager.isChild of Slurm: strings.Contains(p, "/step_")
IsChild(p) == \E k \in DOMAIN p : p[k] = "step_0"

\* The order of filepath.WalkDir: a directory before its entries, the
\* entries of a directory in lexical order.
RECURSIVE PathLess(_, _)
PathLess(p, q) ==
    IF p = << >> THEN q # << >>
    ELSE IF q = << >> THEN FALSE
    ELSE IF p[1] = q[1] THEN PathLess(Tail(p), Tail(q))
    ELSE SegRank(p[1]) < SegRank(q[1])

RECURSIVE WalkOrder(_)
WalkOrder(T) ==
    IF T = {} THEN << >>
    ELSE LET first == CHOOSE p \in T : \A q \in T \ {p} : PathLess(p, q)
         IN  <<first>> \o WalkOrder(T \ {first})

\* The pids a cgroup.procs file lists, the sets of them that /proc may still
\* know when they are looked up, and what is then appended to cgroupProcs[id].
ProcsFile == <<1, 2>>
LiveSets == {{1, 2}, {2}, {}}

\* A mutation of Resolved: the scan stops at the first pid that is not found.
ResolvedUntilFailure(file, ok) ==
    LET n == CHOOSE n \in 0..Len(file) :
                 /\ \A j \in 1..n : file[j] \in ok
                 /\ n = Len(file) \/ file[n + 1] \notin ok
    IN  SubSeq(file, 1, n)

\* The scan of cgroup.procs: a pid whose c.fs.Proc fails is skipped.
Resolved(file, ok) == SelectSeq(file, LAMBDA pid : pid \in ok)

\* m[k] of a Go map of slices: the nil slice for an absent key.
MapGet(m, k) == IF k \in DOMAIN m THEN m[k] ELSE << >>

\* m[k] = append(m[k], vs...)
MapAppend(m, k, vs) ==
    [x \in (DOMAIN m) \cup {k} |-> IF x = k THEN MapGet(m, k) \o vs ELSE m[x]]

\* A mutation of RecordRoot: the root path is left out of its own children.
RecordRootOmitted(children, id, p) == children

\* cgroupChildren[id] = append(cgroupChildren[id], cgroupPath{...}) of a root
RecordRoot(children, id, p) == MapAppend(children, id, <<p>>)

\* The merge after the walk: procs and children are joined to each root by id.
Merged(cgs, procs, children) ==
    [k \in DOMAIN cgs |->
        [cgs[k] EXCEPT
            !.procs = IF cgs[k].id \in DOMAIN procs THEN procs[cgs[k].id] ELSE @,
            !.children = IF cgs[k].id \in DOMAIN children THEN children[cgs[k].id] ELSE @]]

\* No cgroup.procs file has been read.
NoLookups ==
    [x \in ({JobNumber(seg) : seg \in Segments} \ {""}) \X Range(ProcsFile) |-> 0]

InitDiscover ==
    /\ dphase = "setup"
    /\ tree = {<< >>}
    /\ walk = << >>
    /\ visited = << >>
    /\ lookups = NoLookups
    /\ cgroups = << >>
    /\ cgroupProcs = << >>
    /\ cgroupChildren = << >>
    /\ derr = "nil"
    /\ gone = {}

\* The resource manager creates a cgroup directory before the scrape.
MkDir(parent, seg) ==
    /\ dphase = "setup"
    /\ parent \in tree
    /\ Append(parent, seg) \notin tree
    /\ Cardinality(tree) <= MaxDirs
    /\ tree' = tree \cup {Append(parent, seg)}
    /\ UNCHANGED <<dphase, walk, visited, lookups, cgroups, cgroupProcs, cgroupChildren,
                   derr, gone, lbvars, svars>>

\* discover is called: the maps are made and WalkDir starts at mountPoint.
Discover ==
    /\ dphase = "setup"
    /\ dphase' = "walk"
    /\ walk' = WalkOrder(tree)
    /\ visited' = << >>
    /\ lookups' = NoLookups
    /\ cgroups' = << >>
    /\ cgroupProcs' = << >>
    /\ cgroupChildren' = << >>
    /\ derr' = "nil"
    /\ gone' = {}
    /\ UNCHANGED <<tree, lbvars, svars>>

\* A mutation of AbortResult: the units found before the error are returned.
AbortResultPartial(cgs) == cgs

\* "return nil, err": what discover returns as its units when the walk failed.
AbortResult(cgs) == << >>

\* WalkDir hands the callback an error: the next directory cannot be read,
\* because it vanished after its parent had listed it (vanish) or for
\* another reason.  The callback returns the error, the walk stops and
\* discover returns nil and the error.
WalkError(vanish) ==
    /\ dphase = "walk"
    /\ walk # << >>
    /\ vanish => Head(walk) # << >>
    /\ dphase' = "done"
    /\ derr' = IF vanish THEN "ENOENT" ELSE "EACCES"
    /\ gone' = IF vanish THEN {Head(walk)} ELSE {}
    /\ cgroups' = AbortResult(cgroups)
    /\ walk' = << >>
    /\ cgroupProcs' = << >>
    /\ cgroupChildren' = << >>
    /\ lookups' = NoLookups
    /\ UNCHANGED <<tree, visited, lbvars, svars>>

\* A mutation of MakesRecord: every matching directory is given a record.
MakesRecordAlways(id, p) == id # ""

\* The callback reaches "cgroups = append(cgroups, cgrp)" for the directory:
\* it matched idRegex with a non-empty id and isChild(p) did not return early.
MakesRecord(id, p) == id # "" /\ ~IsChild(p)

\* The callback on the next directory, and with the last directory the
\* merge.  readable: cgroup.procs could be read; ok: the pids of it that
\* /proc still knows.
Visit(readable, ok) ==
    /\ dphase = "walk"
    /\ walk # << >>
    /\ LET p == Head(walk)
           id == CgroupID(p)
           found == IF readable THEN Resolved(ProcsFile, ok) ELSE << >>
           procs == IF id = "" \/ found = << >> THEN cgroupProcs
                    ELSE MapAppend(cgroupProcs, id, found)
           children ==
               IF id = "" THEN cgroupChildren
               ELSE IF IsChild(p) THEN MapAppend(cgroupChildren, id, <<p>>)
               ELSE RecordRoot(cgroupChildren, id, p)
           cgs == IF MakesRecord(id, p)
                  THEN Append(cgroups, [id |-> id, uuid |-> id, path |-> p,
                                        procs |-> << >>, children |-> << >>])
                  ELSE cgroups
       IN  /\ cgroupProcs' = procs
           /\ cgroupChildren' = children
           /\ visited' = Append(visited, p)
           /\ lookups' = [x \in DOMAIN lookups |->
                             IF x[1] = id /\ readable /\ x[2] \in ok
                             THEN lookups[x] + 1 ELSE lookups[x]]
           /\ walk' = Tail(walk)
           /\ IF Tail(walk) = << >>
              THEN /\ cgroups' = Merged(cgs, procs, children)
                   /\ dphase' = "done"
              ELSE /\ cgroups' = cgs
                   /\ UNCHANGED dphase
    /\ UNCHANGED <<tree, derr, gone, lbvars, svars>>

NextDiscover ==
    \/ \E parent \in tree, seg \in Segments : MkDir(parent, seg)
    \/ Discover
    \/ \E vanish \in BOOLEAN : WalkError(vanish)
    \/ \E readable \in BOOLEAN, ok \in LiveSets : Visit(readable, ok)

(***************************************************************************)
(* parseCPUSet.  A cpuset string is a sequence of characters.              *)
(***************************************************************************)
Digits == <<"0", "1", "2", "3", "4", "5", "6", "7", "8", "9">>

IsDigit(c) == c \in Range(Digits)

DigitVal(c) == (CHOOSE k \in DOMAIN Digits : Digits[k] = c) - 1

\* strconv.Itoa of a non-negative integer
RECURSIVE Itoa(_)
Itoa(n) ==
    IF n < 10 THEN <<Digits[n + 1]>>
    ELSE Itoa(n \div 10) \o <<Digits[(n % 10) + 1]>>

\* strconv.Atoi of a string without a sign: it fails on the empty string
\* and on a character that is not a digit.
AtoiOK(s) == s # << >> /\ \A k \in DOMAIN s : IsDigit(s[k])

RECURSIVE AtoiVal(_)
AtoiVal(s) ==
    IF s = << >> THEN 0
    ELSE AtoiVal(SubSeq(s, 1, Len(s) - 1)) * 10 + DigitVal(s[Len(s)])

\* strings.Split(s, sep) for a separator of one character
RECURSIVE Split(_, _)
Split(s, sep) ==
    IF \A k \in DOMAIN s : s[k] # sep THEN <<s>>
    ELSE LET k == CHOOSE k \in DOMAIN s :
                      s[k] = sep /\ \A j \in 1..(k - 1) : s[j] # sep
         IN  <<SubSeq(s, 1, k - 1)>> \o Split(SubSeq(s, k + 1, Len(s)), sep)

\* strings.Join(parts, sep)
RECURSIVE Join(_, _)
Join(parts, sep) ==
    IF parts = << >> THEN << >>
    ELSE IF Len(parts) = 1 THEN parts[1]
    ELSE parts[1] \o <<sep>> \o Join(Tail(parts), sep)

\* A mutation of Expand: the end of the range is left out.
ExpandExclusive(start, end) ==
    [k \in 1..(IF end > start THEN end - start ELSE 0) |-> Itoa(start + k - 1)]

\* for e := start; e <= end; e++ { cpus = append(cpus, strconv.Itoa(e)) }
Expand(start, end) ==
    [k \in 1..(IF end >= start THEN end - start + 1 ELSE 0) |-> Itoa(start + k - 1)]

\* The loop over the ranges.  st holds cpus, start, end and whether an Atoi
\* failed; start and end keep their values from one range to the next.
RECURSIVE ParseRanges(_, _)
ParseRanges(ranges, st) ==
    IF ranges = << >> THEN st
    ELSE LET boundaries == Split(Head(ranges), "-")
             bad == \/ Len(boundaries) = 1 /\ ~AtoiOK(boundaries[1])
                    \/ Len(boundaries) = 2 /\ ~AtoiOK(boundaries[1])
                    \/ Len(boundaries) = 2 /\ ~AtoiOK(boundaries[2])
             start == IF Len(boundaries) \in {1, 2}
                      THEN AtoiVal(boundaries[1]) ELSE st.start
             end == IF Len(boundaries) = 1 THEN start
                    ELSE IF Len(boundaries) = 2 THEN AtoiVal(boundaries[2])
                    ELSE st.end
         IN  IF bad THEN [cpus |-> << >>, start |-> st.start, end |-> st.end,
                          err |-> TRUE]
             ELSE ParseRanges(Tail(ranges),
                              [cpus |-> st.cpus \o Expand(start, end),
                               start |-> start, end |-> end, err |-> FALSE])

\* parseCPUSet(cpuset): the list of cpus and whether an error is returned.
ParseCPUSet(s) ==
    IF s = << >> THEN [cpus |-> << >>, err |-> TRUE]
    ELSE LET st == ParseRanges(Split(s, ","),
                               [cpus |-> << >>, start |-> 0, end |-> 0,
                                err |-> FALSE])
         IN  [cpus |-> st.cpus, err |-> st.err]

\* The kernel's list format of a set of cpus: the maximal runs in ascending
\* order, a run of one as "n", a longer one as "lo-hi", joined by commas.
RunStarts(S) == {n \in S : n - 1 \notin S}

RunEnd(S, lo) == CHOOSE hi \in S : hi >= lo /\ (lo..hi) \subseteq S /\ hi + 1 \notin S

RECURSIVE FormatRuns(_, _)
FormatRuns(S, starts) ==
    IF starts = {} THEN << >>
    ELSE LET lo == SetMin(starts)
             hi == RunEnd(S, lo)
             run == IF lo = hi THEN Itoa(lo) ELSE Itoa(lo) \o <<"-">> \o Itoa(hi)
         IN  <<run>> \o FormatRuns(S, starts \ {lo})

Format(S) == Join(FormatRuns(S, RunStarts(S)), ",")

\* A list of ranges <<lo, hi>> written as they stand, a range with lo = hi
\* as the single integer.
Written(ranges) ==
    Join([k \in DOMAIN ranges |->
             IF ranges[k][1] = ranges[k][2] THEN Itoa(ranges[k][1])
             ELSE Itoa(ranges[k][1]) \o <<"-">> \o Itoa(ranges[k][2])], ",")

\* The cpu indices such a list denotes.
Denoted(ranges) == UNION {ranges[k][1]..ranges[k][2] : k \in DOMAIN ranges}

RangeLists ==
    UNION {[1..n -> {<<lo, hi>> \in (0..MaxIndex) \X (0..MaxIndex) : lo <= hi}] :
              n \in 1..MaxRanges}

InitCPUSet ==
    /\ pphase = "none"
    /\ cpuset = << >>
    /\ denoted = {}
    /\ formatted = FALSE
    /\ parsed = [cpus |-> << >>, err |-> FALSE]

\* cpuset.cpus holds the kernel's rendering of the set S.
KernelFormats(S) ==
    /\ pphase = "none"
    /\ pphase' = "file"
    /\ cpuset' = Format(S)
    /\ denoted' = S
    /\ formatted' = TRUE
    /\ parsed' = [cpus |-> << >>, err |-> FALSE]
    /\ UNCHANGED <<lbvars, dvars, cvars, restvars>>

\* The string is a list of integers and ranges in any order, which may
\* overlap or repeat an index.
ListWritten(ranges) ==
    /\ pphase = "none"
    /\ pphase' = "file"
    /\ cpuset' = Written(ranges)
    /\ denoted' = Denoted(ranges)
    /\ formatted' = FALSE
    /\ parsed' = [cpus |-> << >>, err |-> FALSE]
    /\ UNCHANGED <<lbvars, dvars, cvars, restvars>>

\* parseCPUSet is called on the string.
Parse ==
    /\ pphase = "file"
    /\ pphase' = "parsed"
    /\ parsed' = ParseCPUSet(cpuset)
    /\ UNCHANGED <<cpuset, denoted, formatted, lbvars, dvars, cvars, restvars>>

NextCPUSet ==
    \/ \E S \in (SUBSET (0..MaxCPU)) \ {{}} : KernelFormats(S)
    \/ \E ranges \in RangeLists : ListWritten(ranges)
    \/ Parse

(***************************************************************************)
(* The collector: NewCgroupCollector, the stats read of one unit           *)
(* (statsV1, statsV2) and the emission of its samples (Update).            *)
(***************************************************************************)
\* c.hostMemInfo[key]: zero for a key the map does not hold.
MapVal(m, key) == IF key \in DOMAIN m THEN m[key] ELSE 0

\* What hostMemInfo can be after NewCgroupCollector: empty when /proc/meminfo
\* could not be opened or parsed, else the totals of the host, without or
\* with swap.
HostMemInfos ==
    {[key \in {} |-> 0]} \cup
    {[key \in {"MemTotal_bytes", "SwapTotal_bytes"} |->
         IF key = "MemTotal_bytes" THEN HostMemTotal ELSE swap] :
       swap \in {0, HostSwapTotal}}

\* What is in the cpuset file of the unit: the kernel's rendering of two
\* cpus, or a truncated line.
CpusetContents == {Format({0, 1}) \o <<"\n">>, <<"0", "-", "\n">>}

CpusetFiles ==
    {<<"missing">>, <<"unreadable">>} \cup {<<"content", s>> : s \in CpusetContents}

\* One unit's cgroup as the read finds it.  load, stat: the outcome of
\* Load and of Stat ("nil": no error and no stats).  cpuStat, memoryStat:
\* the state of the files behind stats.GetCPU() and stats.GetMemory(),
\* which are non-nil when the file is "ok".  swap: GetSwap() is non-nil
\* (v1).  events: GetMemoryEvents() is non-nil (v2).
Units ==
    [load : BOOLEAN,
     stat : {"ok", "err", "nil"},
     cpuStat : {"ok", "unreadable"},
     memoryStat : {"ok", "unreadable"},
     swap : BOOLEAN,
     events : BOOLEAN,
     memLimit : {CgroupLimit, MaxUint64},
     swapLimit : {CgroupLimit, MaxUint64},
     cpusetFile : CpusetFiles]

\* A cgMetric as doUpdate's caller pre-allocates it: path and uuid set,
\* every other field at its zero value.
ZeroMetric ==
    [cpuUser |-> 0, cpuSystem |-> 0, cpuTotal |-> 0, cpus |-> 0,
     memoryRSS |-> 0, memoryCache |-> 0, memoryUsed |-> 0, memoryTotal |-> 0,
     memoryFailCount |-> 0, memswUsed |-> 0, memswTotal |-> 0,
     memswFailCount |-> 0, err |-> FALSE]

\* strings.TrimSuffix(s, "\n")
TrimSuffix(s, c) ==
    IF s # << >> /\ s[Len(s)] = c THEN SubSeq(s, 1, Len(s) - 1) ELSE s

\* getCPUs: an error when the file does not exist, cannot be read or
\* cannot be parsed.
GetCPUs(file) ==
    IF file[1] # "content" THEN [cpus |-> << >>, err |-> TRUE]
    ELSE ParseCPUSet(TrimSuffix(file[2], "\n"))

\* memoryTotal of a memory limit
MemoryTotal(limit, info) ==
    IF limit = MaxUint64 /\ MapVal(info, "MemTotal_bytes") > 0
    THEN MapVal(info, "MemTotal_bytes")
    ELSE limit

\* A mutation of MemswTotal: the host's MemTotal is preferred to its SwapTotal.
MemswTotalMemFirst(limit, info) ==
    IF limit = MaxUint64
    THEN IF MapVal(info, "MemTotal_bytes") > 0 THEN MapVal(info, "MemTotal_bytes")
         ELSE IF MapVal(info, "SwapTotal_bytes") > 0 THEN MapVal(info, "SwapTotal_bytes")
         ELSE limit
    ELSE limit

\* memswTotal of a swap limit
MemswTotal(limit, info) ==
    IF limit = MaxUint64
    THEN IF MapVal(info, "SwapTotal_bytes") > 0 THEN MapVal(info, "SwapTotal_bytes")
         ELSE IF MapVal(info, "MemTotal_bytes") > 0 THEN MapVal(info, "MemTotal_bytes")
         ELSE limit
    ELSE limit

\* The three early returns of statsV1 and statsV2.
ReadFails(u) == ~u.load \/ u.stat # "ok"

WithCPUs(m, u) ==
    LET r == GetCPUs(u.cpusetFile)
    IN  IF r.err THEN m ELSE [m EXCEPT !.cpus = Len(r.cpus)]

\* statsV2 on the metric m of unit u.  The values of the stats are given in
\* the units of the metric.
StatsV2Of(m, u, info) ==
    IF ReadFails(u) THEN [m EXCEPT !.err = TRUE]
    ELSE LET m1 == IF u.cpuStat = "ok"
                   THEN [m EXCEPT !.cpuUser = StatCPUUser,
                                  !.cpuSystem = StatCPUSystem,
                                  !.cpuTotal = StatCPUUser + StatCPUSystem]
                   ELSE m
             m2 == WithCPUs(m1, u)
             m3 == IF u.memoryStat = "ok"
                   THEN [m2 EXCEPT !.memoryUsed = StatMemoryUsed,
                                   !.memoryTotal = MemoryTotal(u.memLimit, info),
                                   !.memoryCache = StatMemoryCache,
                                   !.memoryRSS = StatMemoryRSS,
                                   !.memswUsed = StatSwapUsed,
                                   !.memswTotal = MemswTotal(u.swapLimit, info)]
                   ELSE m2
         IN  IF u.events THEN [m3 EXCEPT !.memoryFailCount = StatFailCount] ELSE m3

\* statsV1 on the metric m of unit u.
StatsV1Of(m, u, info) ==
    IF ReadFails(u) THEN [m EXCEPT !.err = TRUE]
    ELSE LET m1 == IF u.cpuStat = "ok"
                   THEN [m EXCEPT !.cpuUser = StatCPUUser,
                                  !.cpuSystem = StatCPUSystem,
                                  !.cpuTotal = StatCPUUser + StatCPUSystem]
                   ELSE m
             m2 == WithCPUs(m1, u)
             m3 == IF u.memoryStat = "ok"
                   THEN [m2 EXCEPT !.memoryRSS = StatMemoryRSS,
                                   !.memoryCache = StatMemoryCache,
                                   !.memoryUsed = StatMemoryUsed,
                                   !.memoryTotal = MemoryTotal(u.memLimit, info),
                                   !.memoryFailCount = StatFailCount]
                   ELSE m2
         IN  IF u.memoryStat = "ok" /\ u.swap
             THEN [m3 EXCEPT !.memswUsed = StatSwapUsed,
                             !.memswTotal = MemswTotal(u.swapLimit, info),
                             !.memswFailCount = StatFailCount]
             ELSE m3

\* The samples Update sends for one metric, as <<descriptor, value>>.
SamplesOf(m, o) ==
    {<<"numCgs", 1>>}
    \cup (IF m.err THEN {<<"collectError", 1>>} ELSE {})
    \cup {<<"cgCPUUser", m.cpuUser>>, <<"cgCPUSystem", m.cpuSystem>>,
          <<"cgCPUs", m.cpus>>, <<"cgMemoryRSS", m.memoryRSS>>,
          <<"cgMemoryCache", m.memoryCache>>, <<"cgMemoryUsed", m.memoryUsed>>,
          <<"cgMemoryTotal", m.memoryTotal>>,
          <<"cgMemoryFailCount", m.memoryFailCount>>}
    \cup (IF o.collectSwapMemStats
          THEN {<<"cgMemswUsed", m.memswUsed>>, <<"cgMemswTotal", m.memswTotal>>,
                <<"cgMemswFailCount", m.memswFailCount>>}
          ELSE {})

InitCollect ==
    /\ cphase = "new"
    /\ mode = "unified"
    /\ opts = [collectSwapMemStats |-> FALSE]
    /\ hostMemInfo = [key \in {} |-> 0]
    /\ unit = CHOOSE u \in Units : TRUE
    /\ metric = ZeroMetric
    /\ samples = {}

\* The collector is made: /proc/meminfo is read once.
NewCgroupCollector(info, md, o) ==
    /\ cphase = "new"
    /\ cphase' = "ready"
    /\ hostMemInfo' = info
    /\ mode' = md
    /\ opts' = o
    /\ UNCHANGED <<unit, metric, samples, lbvars, dvars, pvars, restvars>>

\* A scrape begins: the metric of the unit is pre-allocated.  Every scrape
\* starts from a fresh metric, so one scrape is followed.
Scrape(u) ==
    /\ cphase = "ready"
    /\ cphase' = "update"
    /\ unit' = u
    /\ metric' = ZeroMetric
    /\ samples' = {}
    /\ UNCHANGED <<mode, opts, hostMemInfo, lbvars, dvars, pvars, restvars>>

\* update on a cgroups v2 host
StatsV2 ==
    /\ cphase = "update"
    /\ mode = "unified"
    /\ cphase' = "read"
    /\ metric' = StatsV2Of(metric, unit, hostMemInfo)
    /\ UNCHANGED <<mode, opts, hostMemInfo, unit, samples, lbvars, dvars, pvars, restvars>>

\* update on a cgroups v1 host
StatsV1 ==
    /\ cphase = "update"
    /\ mode = "legacy"
    /\ cphase' = "read"
    /\ metric' = StatsV1Of(metric, unit, hostMemInfo)
    /\ UNCHANGED <<mode, opts, hostMemInfo, unit, samples, lbvars, dvars, pvars, restvars>>

\* Update sends the samples after doUpdate has returned.
Update ==
    /\ cphase = "read"
    /\ cphase' = "emitted"
    /\ samples' = SamplesOf(metric, opts)
    /\ UNCHANGED <<mode, opts, hostMemInfo, unit, metric, lbvars, dvars, pvars, restvars>>

NextCollect ==
    \/ \E info \in HostMemInfos, md \in {"unified", "legacy"},
          o \in [collectSwapMemStats : BOOLEAN] : NewCgroupCollector(info, md, o)
    \/ \E u \in Units : Scrape(u)
    \/ StatsV2
    \/ StatsV1
    \/ Update

(***************************************************************************)
(* Collector: Update and doUpdate on a slice of metrics, one goroutine per *)
(* element, then the samples of every metric group.                        *)
(***************************************************************************)
\* A nil map of Go: no key, and a range over it has no iteration.
NilMap == [key \in {} |-> 0]

\* c.opts of a collector
Opts ==
    [collectSwapMemStats : BOOLEAN, collectBlockIOStats : BOOLEAN,
     collectPSIStats : BOOLEAN]

\* The block device and the RDMA device of the host.
BlockDevice == "sda"
RDMADevice == "mlx5_0"

\* A cgroup whose files are all there and readable, Load succeeding or not.
FullCgroups ==
    {u \in Units :
        /\ u.stat = "ok" /\ u.cpuStat = "ok" /\ u.memoryStat = "ok"
        /\ u.swap /\ u.events
        /\ u.memLimit = CgroupLimit /\ u.swapLimit = CgroupLimit
        /\ u.cpusetFile = <<"content", Format({0, 1}) \o <<"\n">>>>}

\* One unit's cgroup as its goroutine finds it.  returns: the read comes
\* back.  psi: the GetPSI() of the CPU, memory and IO stats are non-nil.
\* io: GetIo() / GetBlkio() is non-nil.  rdma: GetRdma() is non-nil, with
\* one device.  The three go together, and a read that does not come back
\* is of a cgroup with everything.
Readings ==
    {r \in [cgroup : FullCgroups, returns : BOOLEAN, psi : BOOLEAN,
            io : BOOLEAN, rdma : BOOLEAN] :
        /\ r.psi = r.io /\ r.io = r.rdma
        /\ ~r.returns => (r.cgroup.load /\ r.psi)}

\* The cgMetric of the unit with the given uuid as the caller of Update
\* pre-allocates it.
CgMetric(uuid) ==
    [cpuUser |-> 0, cpuSystem |-> 0, cpuTotal |-> 0, cpus |-> 0,
     cpuPressure |-> 0,
     memoryRSS |-> 0, memoryCache |-> 0, memoryUsed |-> 0, memoryTotal |-> 0,
     memoryFailCount |-> 0, memswUsed |-> 0, memswTotal |-> 0,
     memswFailCount |-> 0, memoryPressure |-> 0,
     blkioReadBytes |-> NilMap, blkioWriteBytes |-> NilMap,
     blkioReadReqs |-> NilMap, blkioWriteReqs |-> NilMap,
     blkioPressure |-> 0,
     rdmaHCAHandles |-> NilMap, rdmaHCAObjects |-> NilMap,
     uuid |-> uuid, err |-> FALSE]

\* A block IO map of a reading: made, with the device's value, when the
\* reading has IO stats.
BlkioMap(r, old, value) == IF r.io THEN (BlockDevice :> value) ELSE old

\* An RDMA map of a reading: made, with the device's value, when the
\* reading has RDMA stats.
RdmaMap(r, old, value) == IF r.rdma THEN (RDMADevice :> value) ELSE old

\* statsV2 on the metric m of a unit with reading r, all its fields.
StatsV2All(m, r, info) ==
    IF ReadFails(r.cgroup) THEN [m EXCEPT !.err = TRUE]
    ELSE [StatsV2Of(m, r.cgroup, info) EXCEPT
            !.cpuPressure =
                IF r.cgroup.cpuStat = "ok" /\ r.psi THEN StatCPUPressure ELSE @,
            !.memoryPressure =
                IF r.cgroup.memoryStat = "ok" /\ r.psi THEN StatMemoryPressure ELSE @,
            !.blkioReadBytes = BlkioMap(r, @, StatRbytes),
            !.blkioReadReqs = BlkioMap(r, @, StatRios),
            !.blkioWriteBytes = BlkioMap(r, @, StatWbytes),
            !.blkioWriteReqs = BlkioMap(r, @, StatWios),
            !.blkioPressure = IF r.io /\ r.psi THEN StatIOPressure ELSE @,
            !.rdmaHCAHandles = RdmaMap(r, @, StatHcaHandles),
            !.rdmaHCAObjects = RdmaMap(r, @, StatHcaObjects)]

\* statsV1 on the metric m of a unit with reading r, all its fields.
StatsV1All(m, r, info) ==
    IF ReadFails(r.cgroup) THEN [m EXCEPT !.err = TRUE]
    ELSE [StatsV1Of(m, r.cgroup, info) EXCEPT
            !.blkioReadBytes = BlkioMap(r, @, StatRbytes),
            !.blkioWriteBytes = BlkioMap(r, @, StatWbytes),
            !.blkioReadReqs = BlkioMap(r, @, StatRios),
            !.blkioWriteReqs = BlkioMap(r, @, StatWios),
            !.rdmaHCAHandles = RdmaMap(r, @, StatHcaHandles),
            !.rdmaHCAObjects = RdmaMap(r, @, StatHcaObjects)]

\* c.update(m)
UpdateOf(md, m, r, info) ==
    IF md = "unified" THEN StatsV2All(m, r, info) ELSE StatsV1All(m, r, info)

\* The samples of one element v of a map of a metric, sent when positive,
\* as <<descriptor, uuid, device, value>>.
DeviceSample(desc, m, map, device) ==
    IF device \in DOMAIN map /\ map[device] > 0
    THEN {<<desc, m.uuid, device, map[device]>>}
    ELSE {}

\* The samples Update sends for the metric m.
UnitSamples(m, o) ==
    {<<s[1], m.uuid, "", s[2]>> : s \in SamplesOf(m, o) \ {<<"numCgs", 1>>}}
    \cup (IF o.collectBlockIOStats
          THEN UNION {DeviceSample("cgBlkioReadBytes", m, m.blkioReadBytes, device)
                      \cup DeviceSample("cgBlkioWriteBytes", m, m.blkioWriteBytes, device)
                      \cup DeviceSample("cgBlkioReadReqs", m, m.blkioReadReqs, device)
                      \cup DeviceSample("cgBlkioWriteReqs", m, m.blkioWriteReqs, device) :
                      device \in DOMAIN m.blkioReadBytes}
          ELSE {})
    \cup (IF o.collectPSIStats
          THEN {<<"cgCPUPressure", m.uuid, "", m.cpuPressure>>,
                <<"cgMemoryPressure", m.uuid, "", m.memoryPressure>>}
          ELSE {})
    \cup UNION {DeviceSample("cgRDMAHCAHandles", m, m.rdmaHCAHandles, device) :
                device \in DOMAIN m.rdmaHCAHandles}
    \cup UNION {DeviceSample("cgRDMAHCAObjects", m, m.rdmaHCAHandles, device) :
                device \in DOMAIN m.rdmaHCAHandles}

\* Everything Update sends for the metrics ms: the number of units, then
\* the samples of each.
Sent(ms, o) ==
    {<<"numCgs", 0, "", Len(ms)>>}
    \cup UNION {UnitSamples(ms[k], o) : k \in DOMAIN ms}

\* A mutation of WgAdd: the WaitGroup counts one goroutine.
WgAddOne(ms) == IF ms = << >> THEN 0 ELSE 1

\* wg.Add(len(metrics))
WgAdd(ms) == Len(ms)

InitUpdate ==
    /\ uphase = "none"
    /\ readings = << >>
    /\ metrics = << >>
    /\ wg = 0
    /\ ui = 0
    /\ launched = << >>
    /\ finished = << >>
    /\ wrote = << >>
    /\ deadline = FALSE
    /\ ch = {}

\* Update is called with the pre-allocated metrics of the units rs, and
\* doUpdate sets the WaitGroup.  The uuid of a unit is its position.
DoUpdate(rs) ==
    /\ cphase = "ready"
    /\ uphase = "none"
    /\ uphase' = "spawn"
    /\ readings' = rs
    /\ metrics' = [k \in DOMAIN rs |-> CgMetric(k)]
    /\ wg' = WgAdd(rs)
    /\ ui' = 1
    /\ wrote' = [k \in DOMAIN rs |-> {}]
    /\ UNCHANGED <<launched, finished, deadline, ch, lbvars, dvars, pvars, cvars, evars, jvars>>

\* One iteration of doUpdate's loop: go func(idx int) {...}(i)
Go ==
    /\ uphase = "spawn"
    /\ ui <= Len(metrics)
    /\ launched' = Append(launched, ui)
    /\ ui' = ui + 1
    /\ UNCHANGED <<uphase, readings, metrics, wg, finished, wrote, deadline, ch,
                   lbvars, dvars, pvars, cvars, evars, jvars>>

\* Goroutine w runs: c.update(&metrics[idx]), then wg.Done().  A read that
\* does not return leaves the goroutine in update.
Worker(w) ==
    /\ uphase = "spawn"
    /\ w \in DOMAIN launched
    /\ w \notin Range(finished)
    /\ LET idx == launched[w] IN
        /\ readings[idx].returns
        /\ metrics' = [metrics EXCEPT
                          ![idx] = UpdateOf(mode, @, readings[idx], hostMemInfo)]
        /\ wrote' = [wrote EXCEPT ![idx] = @ \cup {w}]
    /\ finished' = Append(finished, w)
    /\ wg' = wg - 1
    /\ UNCHANGED <<uphase, readings, ui, launched, deadline, ch, lbvars, dvars,
                   pvars, cvars, evars, jvars>>

\* wg.Wait() returns and doUpdate with it.
Wait ==
    /\ uphase = "spawn"
    /\ ui > Len(metrics)
    /\ wg = 0
    /\ uphase' = "send"
    /\ UNCHANGED <<readings, metrics, wg, ui, launched, finished, wrote, deadline,
                   ch, lbvars, dvars, pvars, cvars, evars, jvars>>

\* Update sends the samples.
Send ==
    /\ uphase = "send"
    /\ uphase' = "done"
    /\ ch' = Sent(metrics, opts)
    /\ UNCHANGED <<readings, metrics, wg, ui, launched, finished, wrote, deadline,
                   lbvars, dvars, pvars, cvars, evars, jvars>>

\* The deadline of the scrape request passes while doUpdate runs.  Neither
\* Update nor doUpdate takes a context, so nothing of theirs changes.
Deadline ==
    /\ uphase = "spawn"
    /\ ~deadline
    /\ deadline' = TRUE
    /\ UNCHANGED <<uphase, readings, metrics, wg, ui, launched, finished, wrote,
                   ch, lbvars, dvars, pvars, cvars, evars, jvars>>

\* The units of a scrape
MaxUnits == 2

RECURSIVE SeqsUpTo(_, _)
SeqsUpTo(S, n) ==
    IF n = 0 THEN {<< >>}
    ELSE LET shorter == SeqsUpTo(S, n - 1)
         IN  shorter \cup {Append(q, x) : q \in shorter, x \in S}

NextUpdate ==
    \/ \E md \in {"unified", "legacy"}, o \in Opts :
          NewCgroupCollector(
              [key \in {"MemTotal_bytes", "SwapTotal_bytes"} |->
                  IF key = "MemTotal_bytes" THEN HostMemTotal ELSE HostSwapTotal],
              md, o)
    \/ \E rs \in SeqsUpTo(Readings, MaxUnits) : DoUpdate(rs)
    \/ Go
    \/ \E w \in 1..MaxUnits : Worker(w)
    \/ Wait
    \/ Send
    \/ Deadline


(***************************************************************************)
(* Emissions collector (pkg/collector/emissions.go): the emission factor   *)
(* of France is asked of RTE and cached.                                   *)
(***************************************************************************)
\* How many times the clock advances
MaxTicks == 5

\* By how many seconds the clock advances at a time
ClockSteps == {1, 1799}

\* For how long a factor of RTE is used
CacheSeconds == 1800

\* prevEmissionFactor before any request, and a factor that is not available
NoFactor == 0 - 1

\* emissions.GlobalEmissionFactor
GlobalEmissionFactor == 475

\* The country codes the collector is started with
CountryCodes == {"FRA", "DEU", "ZZZ"}

\* What GetEnergyMixData returns: nothing when it failed, else the factors
\* of the countries of the data set.
EnergyDatas == {NilMap, ("FRA" :> 60 @@ "DEU" :> 400)}

\* What getRteEnergyMixData returns: a factor, or an error.
RteReplies == {<<"ok", 50>>, <<"ok", NoFactor>>, <<"err", 0>>}

\* No request to RTE has been sent.
NoRequest == 0 - 1

\* The history of a scrape.  n: 0 before the first.  asked: RTE was
\* requested.  cached:
\* prevEmissionFactor when the scrape began.  since: the seconds since the
\* previous request to RTE was sent, NoRequest if none was.  returned: what
\* getCurrentEmissionFactor returned, NoFactor until it has.
NoScrape == [n |-> 0, asked |-> FALSE, cached |-> NoFactor, since |-> NoRequest,
             returned |-> NoFactor]

\* c.energyData[code], or the global average
FromEnergyData(data, code) ==
    IF code \in DOMAIN data THEN data[code] ELSE GlobalEmissionFactor

\* A mutation of Stale: a factor as old as the cache time is asked again.
StaleAtLeast(now, prev) == now - prev >= CacheSeconds

\* time.Now().Unix()-c.prevReadTime > 1800
Stale(now, prev) == now - prev > CacheSeconds

InitEmissions ==
    /\ ephase = "new"
    /\ countryCode = "FRA"
    /\ energyData = NilMap
    /\ prevReadTime = 0
    /\ prevEmissionFactor = NoFactor
    /\ clock = 0
    /\ ticks = 0
    /\ lastRequest = NoRequest
    /\ scrape = NoScrape

NewEmissionsCollector(code, data) ==
    /\ ephase = "new"
    /\ ephase' = "idle"
    /\ countryCode' = code
    /\ energyData' = data
    /\ prevReadTime' = clock
    /\ prevEmissionFactor' = NoFactor
    /\ UNCHANGED <<clock, ticks, lastRequest, scrape, lbvars, dvars, pvars, cvars,
                   uvars, jvars>>

\* Time passes, between scrapes or while RTE is asked.
Tick(d) ==
    /\ ephase # "new"
    /\ ticks < MaxTicks
    /\ ticks' = ticks + 1
    /\ clock' = clock + d
    /\ UNCHANGED <<ephase, countryCode, energyData, prevReadTime,
                   prevEmissionFactor, lastRequest, scrape, lbvars, dvars, pvars,
                   cvars, uvars, jvars>>

\* The seconds since the last request to RTE was sent.
SinceRequest == IF lastRequest = NoRequest THEN NoRequest ELSE clock - lastRequest

\* Update -> getCurrentEmissionFactor, up to its return or to the request
\* getCurrentEmissionFactorFrance sends to RTE.
GetCurrentEmissionFactor ==
    /\ ephase = "idle"
    /\ LET begun == [n |-> 1, asked |-> FALSE,
                     cached |-> prevEmissionFactor, since |-> SinceRequest,
                     returned |-> NoFactor]
       IN  IF countryCode # "FRA"
           THEN /\ scrape' = [begun EXCEPT
                                !.returned = FromEnergyData(energyData, countryCode)]
                /\ UNCHANGED <<ephase, lastRequest>>
           ELSE IF Stale(clock, prevReadTime) \/ prevEmissionFactor = NoFactor
           THEN /\ ephase' = "asking"
                /\ lastRequest' = clock
                /\ scrape' = [begun EXCEPT !.asked = TRUE]
           ELSE /\ scrape' = [begun EXCEPT !.returned = prevEmissionFactor]
                /\ UNCHANGED <<ephase, lastRequest>>
    /\ UNCHANGED <<countryCode, energyData, prevReadTime, prevEmissionFactor, clock,
                   ticks, lbvars, dvars, pvars, cvars, uvars, jvars>>

\* getCurrentEmissionFactorFrance of a reply of RTE
CurrentEmissionFactorFrance(reply, data) ==
    IF reply[1] = "err" THEN FromEnergyData(data, "FRA") ELSE reply[2]

\* RTE's reply comes: getCachedEmissionFactorFrance caches it with the
\* time and returns it.
RteReply(reply) ==
    /\ ephase = "asking"
    /\ ephase' = "idle"
    /\ LET currentEmissionFactor == CurrentEmissionFactorFrance(reply, energyData)
       IN  /\ prevReadTime' = clock
           /\ prevEmissionFactor' = currentEmissionFactor
           /\ scrape' = [scrape EXCEPT !.returned = currentEmissionFactor]
    /\ UNCHANGED <<countryCode, energyData, clock, ticks, lastRequest, lbvars, dvars,
                   pvars, cvars, uvars, jvars>>

NextEmissions ==
    \/ \E code \in CountryCodes, data \in EnergyDatas : NewEmissionsCollector(code, data)
    \/ \E d \in ClockSteps : Tick(d)
    \/ GetCurrentEmissionFactor
    \/ \E reply \in RteReplies : RteReply(reply)

(***************************************************************************)
(* Slurm fetcher: parseSacctCmdOutput, one goroutine per line of sacct's   *)
(* output.                                                                 *)
(***************************************************************************)
\* The lines of the output after the header
MaxLines == 2

\* The fetch interval, as start.UnixMilli() and end.UnixMilli()
Intervals == {<<3000, 6000>>}

\* What TimeToTimestamp gives for the start and end fields of a job line,
\* in milliseconds, 0 for a time that is not there ("Unknown"): a job not
\* started, ended before the interval, ending in it, running through it,
\* still running, within it, started after it and running, or ended.
JobTimes ==
    {<<0, 0>>, <<1000, 2000>>, <<1000, 4500>>, <<1000, 9000>>, <<1000, 0>>,
     <<4000, 5500>>, <<8000, 0>>, <<8000, 9000>>}

\* A line of the output.  kind: "short" has fewer fields than sacctFields,
\* "step" has a job id with a ".", "none" has the node list
\* "None assigned", "job" is the line of a job that ran.
SacctLines ==
    [kind : {"short", "step", "none"}, times : {<<0, 0>>}]
    \cup [kind : {"job"}, times : JobTimes]

\* The zero value of models.Unit
ZeroUnit == [UUID |-> 0, StartedAtTS |-> 0, EndedAtTS |-> 0, TotalWallTime |-> 0]

\* The line passes the three filters of the goroutine.
PassesFilters(l) == l.kind = "job"

\* Integer division of Go, which truncates towards zero
Quo(a, b) == IF a >= 0 THEN a \div b ELSE 0 - ((0 - a) \div b)

\* elapsedSeconds of a job with the given start and end in the interval
ElapsedSeconds(jobStartTS, jobEndTS, intStartTS, intEndTS) ==
    LET marks ==
            IF jobStartTS = 0 THEN <<intStartTS, intStartTS>>
            ELSE IF jobEndTS > 0 /\ jobEndTS < intStartTS THEN <<jobStartTS, jobEndTS>>
            ELSE <<IF jobStartTS > intStartTS THEN jobStartTS ELSE intStartTS,
                   IF jobEndTS > 0 /\ jobEndTS < intEndTS THEN jobEndTS ELSE intEndTS>>
    IN  Quo(marks[2] - marks[1], 1000)

\* jobStat of the line l, whose job id is its position idx
JobStat(idx, l, intStartTS, intEndTS) ==
    [UUID |-> idx, StartedAtTS |-> l.times[1], EndedAtTS |-> l.times[2],
     TotalWallTime |-> ElapsedSeconds(l.times[1], l.times[2], intStartTS, intEndTS)]

\* A mutation of CanLock: jobLock excludes nobody.
CanLockAlways(holder) == TRUE

\* jobLock.Lock() returns when nobody holds the lock.
CanLock(holder) == holder = 0

InitSacct ==
    /\ jphase = "none"
    /\ sacctOutputLines = << >>
    /\ interval = <<0, 0>>
    /\ jobs = << >>
    /\ numJobs = 0
    /\ jwg = 0
    /\ iline = 0
    /\ gpc = << >>
    /\ numRead = << >>
    /\ jobLock = 0

\* parseSacctCmdOutput is called: the lines are split, jobs is made and the
\* WaitGroup is set.
ParseSacctCmdOutput(ls, int) ==
    /\ jphase = "none"
    /\ jphase' = "spawn"
    /\ sacctOutputLines' = ls
    /\ interval' = int
    /\ jobs' = [k \in DOMAIN ls |-> ZeroUnit]
    /\ numJobs' = 0
    /\ jwg' = Len(ls)
    /\ iline' = 1
    /\ gpc' = [k \in DOMAIN ls |-> "none"]
    /\ numRead' = [k \in DOMAIN ls |-> 0]
    /\ UNCHANGED <<jobLock, lbvars, dvars, pvars, cvars, uvars, evars>>

\* One iteration of the loop: go func(i int, l string) {...}(iline, line)
GoLine ==
    /\ jphase = "spawn"
    /\ iline <= Len(sacctOutputLines)
    /\ gpc' = [gpc EXCEPT ![iline] = "run"]
    /\ iline' = iline + 1
    /\ UNCHANGED <<jphase, sacctOutputLines, interval, jobs, numJobs, jwg, numRead,
                   jobLock, lbvars, dvars, pvars, cvars, uvars, evars>>

\* The goroutine of line k finds that a filter rejects the line: wg.Done()
\* and return.
LineSkipped(k) ==
    /\ jphase = "spawn"
    /\ k \in DOMAIN gpc
    /\ gpc[k] = "run"
    /\ ~PassesFilters(sacctOutputLines[k])
    /\ gpc' = [gpc EXCEPT ![k] = "done"]
    /\ jwg' = jwg - 1
    /\ UNCHANGED <<jphase, sacctOutputLines, interval, jobs, numJobs, iline, numRead,
                   jobLock, lbvars, dvars, pvars, cvars, uvars, evars>>

\* The goroutine of line k makes jobStat, takes jobLock, stores jobStat and
\* reads numJobs.
LineParsed(k) ==
    /\ jphase = "spawn"
    /\ k \in DOMAIN gpc
    /\ gpc[k] = "run"
    /\ PassesFilters(sacctOutputLines[k])
    /\ CanLock(jobLock)
    /\ jobLock' = k
    /\ jobs' = [jobs EXCEPT
                  ![k] = JobStat(k, sacctOutputLines[k], interval[1], interval[2])]
    /\ numRead' = [numRead EXCEPT ![k] = numJobs]
    /\ gpc' = [gpc EXCEPT ![k] = "locked"]
    /\ UNCHANGED <<jphase, sacctOutputLines, interval, numJobs, jwg, iline, lbvars,
                   dvars, pvars, cvars, uvars, evars>>

\* The goroutine of line k writes numJobs, gives jobLock back and is done.
LineCounted(k) ==
    /\ jphase = "spawn"
    /\ k \in DOMAIN gpc
    /\ gpc[k] = "locked"
    /\ numJobs' = numRead[k] + 1
    /\ jobLock' = 0
    /\ gpc' = [gpc EXCEPT ![k] = "done"]
    /\ jwg' = jwg - 1
    /\ UNCHANGED <<jphase, sacctOutputLines, interval, jobs, iline, numRead, lbvars,
                   dvars, pvars, cvars, uvars, evars>>

\* wg.Wait() returns, and parseSacctCmdOutput with jobs and numJobs.
SacctReturn ==
    /\ jphase = "spawn"
    /\ iline > Len(sacctOutputLines)
    /\ jwg = 0
    /\ jphase' = "returned"
    /\ UNCHANGED <<sacctOutputLines, interval, jobs, numJobs, jwg, iline, gpc,
                   numRead, jobLock, lbvars, dvars, pvars, cvars, uvars, evars>>

NextSacct ==
    \/ \E ls \in SeqsUpTo(SacctLines, MaxLines), int \in Intervals :
          ParseSacctCmdOutput(ls, int)
    \/ GoLine
    \/ \E k \in 1..MaxLines : LineSkipped(k)
    \/ \E k \in 1..MaxLines : LineParsed(k)
    \/ \E k \in 1..MaxLines : LineCounted(k)
    \/ SacctReturn

Init ==
    /\ InitLB /\ InitDiscover /\ InitCPUSet /\ InitCollect /\ InitUpdate
    /\ InitEmissions /\ InitSacct

\* The backends some request can reach.  What another thread writes to a
\* backend of a cluster no request names is read by nobody.
Watched == UNION {Range(BackendsOf(id)) : id \in RequestIDs}

NextLB ==
    \/ \E id \in IDs, r \in Retentions : Add(id, r)
    \/ Start
    \/ \E b \in Watched : HealthProbe(b)
    \/ \E b \in Watched : OtherForward(b)
    \/ \E b \in Watched : OtherResponse(b)
    \/ \E id \in RequestIDs, p \in Params : Request(id, p)
    \/ ServeBegin
    \/ TargetBegin
    \/ TargetScan
    \/ TargetCount
    \/ TargetSelect
    \/ TargetEnd
    \/ ServeTarget
    \/ ForwardOK
    \/ ForwardFail

Spec == Init /\ [][NextLB]_vars

SpecDiscover == Init /\ [][NextDiscover]_vars

SpecCPUSet == Init /\ [][NextCPUSet]_vars

SpecCollect == Init /\ [][NextCollect]_vars

SpecUpdate == Init /\ [][NextUpdate]_vars

SpecEmissions == Init /\ [][NextEmissions]_vars

SpecSacct == Init /\ [][NextSacct]_vars

\* Every goroutine that can run does, and doUpdate and Update go on when
\* they can.
SpecUpdateFair ==
    /\ SpecUpdate
    /\ WF_uvars(Go)
    /\ \A w \in 1..MaxUnits : WF_uvars(Worker(w))
    /\ WF_uvars(Wait)
    /\ WF_uvars(Send)


(***************************************************************************)
(* The router's contract.  Target has returned when pc = "serveTarget":    *)
(* target holds what it returned, and its locals and the history of its    *)
(* reads are still in place.                                               *)
(***************************************************************************)
Returned == pc = "serveTarget"

\* Backend k of the request's cluster, in registration order.
BackendAt(k) == BackendsOf(rid)[k]

\* Indices of the backends that were alive when the first loop examined them
\* and whose retention period is greater than d.
SeenEligible ==
    {k \in 1..Len(seenAlive) : seenAlive[k] /\ retention[BackendAt(k)] > queryPeriod}

\* Those of them with the minimum retention period.
SeenMinimal ==
    {k \in SeenEligible :
        \A m \in SeenEligible : retention[BackendAt(k)] <= retention[BackendAt(m)]}

\* What the second loop read of backend b.
SecondLook(b) == CHOOSE r \in Range(seenConns) : r[1] = b

\* The minimal ones still alive when the second loop examined them.
Selectable ==
    {k \in SeenMinimal :
        /\ \E r \in Range(seenConns) : r[1] = BackendAt(k)
        /\ SecondLook(BackendAt(k))[2]}

\* C1: a backend returned by Target(id, d) was alive when Target examined it
\* and has a retention period strictly greater than d; one whose retention
\* period equals d is never returned.
C1_ReturnedAliveAndCovering ==
    (Returned /\ target # NIL) =>
        /\ \E k \in 1..Len(seenAlive) : BackendAt(k) = target /\ seenAlive[k]
        /\ queryPeriod < retention[target]
        /\ retention[target] # queryPeriod

\* C1, its case: Target returns a backend of a cluster that also holds an
\* alive backend whose retention period equals d.
C1_Witness ==
    /\ Returned
    /\ target # NIL
    /\ \E k \in 1..Len(seenAlive) :
        seenAlive[k] /\ retention[BackendAt(k)] = queryPeriod

\* C2: the retention period of a returned backend is the minimum over the
\* backends of the cluster that were alive when examined and whose retention
\* period is greater than d.
C2_ReturnedHasMinRetention ==
    (Returned /\ target # NIL) =>
        retention[target] = SetMin({retention[BackendAt(k)] : k \in SeenEligible})

\* C2, its case: two eligible backends of different retention periods.
C2_Witness ==
    /\ Returned
    /\ target # NIL
    /\ \E k, m \in SeenEligible : retention[BackendAt(k)] < retention[BackendAt(m)]

\* The first registered among the selectable backends with the fewest
\* connections, as the second loop read them.
LeastConnected ==
    LET cmin == SetMin({SecondLook(BackendAt(k))[3] : k \in Selectable})
    IN  BackendAt(SetMin({k \in Selectable : SecondLook(BackendAt(k))[3] = cmin}))

\* C3: when two or more eligible backends share the minimum retention
\* period, Target returns the one with the fewest active connections, and
\* among those with equally few the one registered first.
C3_LeastConnectionsThenOrder ==
    (Returned /\ Cardinality(SeenMinimal) >= 2 /\ Selectable # {}) =>
        target = LeastConnected

\* C3, its case: two backends share the minimum retention period and the
\* one registered second has fewer connections.
C3_Witness ==
    /\ Returned
    /\ \E k, m \in Selectable :
        /\ k < m
        /\ SecondLook(BackendAt(m))[3] < SecondLook(BackendAt(k))[3]
        /\ target = BackendAt(m)

\* The cluster ids passed to Add so far.
AddedIDs == {added[k][1] : k \in DOMAIN added}

\* C4: Target returns none for a cluster id that was never passed to Add.
C4_UnknownIDReturnsNone ==
    (Returned /\ rid \notin AddedIDs) => target = NIL

\* C4, its case: the id was never added while another cluster holds an alive
\* backend that covers d.
C4_Witness ==
    /\ Returned
    /\ rid \notin AddedIDs
    /\ \E b \in Handles : alive[b] /\ queryPeriod < retention[b]

\* The backends added under id, in the order of the Add calls.
RECURSIVE AddedUnder(_, _)
AddedUnder(log, id) ==
    IF log = << >> THEN << >>
    ELSE IF log[1][1] = id THEN <<log[1][2]>> \o AddedUnder(Tail(log), id)
    ELSE AddedUnder(Tail(log), id)

\* C8: the backend sequence of each cluster id lists the backends added
\* under that id in the order of the Add calls, Size(id) is its length, and
\* an id is a key of the pool only when it was added.
C8_PoolKeepsRegistrationOrder ==
    /\ DOMAIN backends = AddedIDs
    /\ \A id \in IDs :
        /\ BackendsOf(id) = AddedUnder(added, id)
        /\ Size(id) = Len(AddedUnder(added, id))

\* C8, its case: two backends were added under one id.
C8_Witness == \E id \in IDs : Size(id) >= 2


(***************************************************************************)
(* The frontend's contract.                                                *)
(***************************************************************************)
\* C5: Serve answers 503 exactly when the router returned no backend, and
\* otherwise hands the request to the backend the router returned and to no
\* other (retries = 0: the request as Serve dispatched it, before any retry
\* by the error handler).
C5_ServeDispatchesToTarget ==
    (pc \in {"forward", "done"} /\ retries = 0) =>
        /\ (response = "503") <=> (target = NIL)
        /\ IF target = NIL THEN handed = << >> ELSE handed = <<target>>

\* C5, its case: the cluster holds an alive and a dead backend, none
\* eligible, and the client got 503.
C5_Witness ==
    /\ pc = "done"
    /\ retries = 0
    /\ response = "503"
    /\ \E k, m \in 1..Size(rid) : alive[BackendAt(k)] /\ ~alive[BackendAt(m)]

AliveThroughout ==
    {k \in 1..Len(seenAlive) :
        /\ seenAlive[k]
        /\ \A r \in Range(seenConns) : r[1] = BackendAt(k) => r[2]}

\* C7: a request without query params is routed with a window of zero, so
\* every alive backend with a non-zero retention period is eligible and the
\* alive backend with the shortest retention period is chosen.
C7_NoParamsShortestAliveChosen ==
    (Returned /\ rparams = NoParams) =>
        /\ queryPeriod = 0
        /\ \A k \in 1..Len(seenAlive) :
            (seenAlive[k] /\ retention[BackendAt(k)] # 0)
                => BackendAt(k) \in Range(targetBackends)
        /\ AliveThroughout # {} =>
            /\ target # NIL
            /\ retention[target] =
                 SetMin({retention[BackendAt(k)] : k \in AliveThroughout})


(***************************************************************************)
(* The discoverer's contract.  discover has returned when dphase = "done": *)
(* cgroups and derr hold what it returned.                                 *)
(***************************************************************************)
Discovered == dphase = "done" /\ derr = "nil"

\* The walked directories whose extracted id is id.
WalkedWith(id) == {p \in Range(visited) : CgroupID(p) = id}

NoDuplicates(s) == \A m, n \in DOMAIN s : m # n => s[m] # s[n]

\* C9: in the result of one discover pass each id appears in at most one
\* record, whatever the directory tree under mountPoint is.
C9_EachIDAtMostOnce ==
    Discovered =>
        \A m, n \in DOMAIN cgroups : m # n => cgroups[m].id # cgroups[n].id

\* C10: after discover the children of every root are exactly the walked
\* directories whose extracted id is the root's id, the root's own path
\* among them and each directory once, wherever the root's directory stands
\* in the walk relative to its child directories.
C10_ChildrenAreTheWalkedOfTheID ==
    Discovered =>
        \A k \in DOMAIN cgroups :
            /\ Range(cgroups[k].children) = WalkedWith(cgroups[k].id)
            /\ NoDuplicates(cgroups[k].children)
            /\ cgroups[k].path \in Range(cgroups[k].children)

\* C10 witness: a returned root whose child directory was visited before
\* the root's own directory, and whose children hold both.
C10_Witness ==
    /\ Discovered
    /\ \E k \in DOMAIN cgroups :
        LET children == cgroups[k].children
        IN  \E a, r \in DOMAIN children :
                /\ a < r
                /\ IsChild(children[a])
                /\ children[r] = cgroups[k].path


\* The ids the walked directories match.
WalkedIDs == {CgroupID(p) : p \in Range(visited)} \ {""}

\* C11: a directory that isChild accepts never has a record, during the walk
\* and in the result; its path is under children[id]; and an id whose
\* matching directories are all child paths has no record in the result.
C11_ChildNeverARecord ==
    /\ \A k \in DOMAIN cgroups : ~IsChild(cgroups[k].path)
    /\ dphase = "walk" =>
          \A p \in Range(visited) :
              IsChild(p) /\ CgroupID(p) # "" =>
                  p \in Range(MapGet(cgroupChildren, CgroupID(p)))
    /\ Discovered =>
          \A id \in WalkedIDs :
              (\A p \in WalkedWith(id) : IsChild(p)) =>
                  \A k \in DOMAIN cgroups : cgroups[k].id # id

\* C11 witness: discover returned a unit, and another id was matched by
\* child directories only.
C11_Witness ==
    /\ Discovered
    /\ cgroups # << >>
    /\ \E id \in WalkedIDs : \A p \in WalkedWith(id) : IsChild(p)


\* How often pid stands in the sequence s.
Occurrences(s, pid) == Cardinality({j \in DOMAIN s : s[j] = pid})

\* C12: the procs of a returned unit are exactly the pids of the cgroup.procs
\* files of the directories with the unit's id whose lookup succeeded, one
\* entry per file and pid; a failed lookup raises no error and removes no
\* unit: every directory that makes a record has its record in the result.
C12_ProcsAreTheResolvedPids ==
    /\ dphase = "walk" => derr = "nil"
    /\ Discovered =>
          /\ \A k \in DOMAIN cgroups :
                /\ Range(cgroups[k].procs) \subseteq Range(ProcsFile)
                /\ \A pid \in Range(ProcsFile) :
                      Occurrences(cgroups[k].procs, pid)
                          = lookups[<<cgroups[k].id, pid>>]
          /\ {cgroups[k].path : k \in DOMAIN cgroups}
                = {p \in Range(visited) : CgroupID(p) # "" /\ ~IsChild(p)}

\* C12 witness: a returned unit that holds a pid from a cgroup.procs file
\* in which the lookup of an earlier pid failed.
C12_Witness ==
    /\ Discovered
    /\ \E k \in DOMAIN cgroups :
          /\ lookups[<<cgroups[k].id, 1>>] < lookups[<<cgroups[k].id, 2>>]
          /\ 2 \in Range(cgroups[k].procs)
          /\ Len(cgroups[k].children) > 1


\* The handled directories that make a record.
RecordMakers == {p \in Range(visited) : CgroupID(p) # "" /\ ~IsChild(p)}

\* C13: a directory that vanishes between being listed and being visited
\* does not abort the pass: discover returns without error.
C13_VanishedDirectoryDoesNotAbort ==
    dphase = "done" /\ gone # {} => derr = "nil"

\* C14: when the walk reports an error, so that it ends before every
\* directory was handled, discover returns the error and no units, whatever
\* had been found before the error.
C14_WalkErrorReturnsNoUnits ==
    dphase = "done" /\ Len(visited) < Cardinality(tree) =>
        /\ derr \in {"ENOENT", "EACCES"}
        /\ cgroups = << >>

\* C14 witness: discover returned an error after the walk had handled a
\* directory that makes a record.
C14_Witness ==
    /\ dphase = "done"
    /\ derr # "nil"
    /\ RecordMakers # {}


(***************************************************************************)
(* The stats reader's contract.  The read of the unit has returned when    *)
(* cphase is "read" or "emitted"; Update has sent when it is "emitted".    *)
(***************************************************************************)
ReadDone == cphase \in {"read", "emitted"}

\* The cpuset file of the unit is missing, unreadable or malformed.
CpusetFailure == GetCPUs(unit.cpusetFile).err

\* Some part of the read of the unit failed.
PartialFailure ==
    \/ ~unit.load
    \/ unit.stat # "ok"
    \/ unit.cpuStat # "ok"
    \/ unit.memoryStat # "ok"
    \/ CpusetFailure

MemoryFieldsZero ==
    /\ metric.memoryRSS = 0 /\ metric.memoryCache = 0
    /\ metric.memoryUsed = 0 /\ metric.memoryTotal = 0
    /\ metric.memswUsed = 0 /\ metric.memswTotal = 0

CPUFieldsPopulated ==
    /\ metric.cpuUser = StatCPUUser
    /\ metric.cpuSystem = StatCPUSystem

\* C15: on any partial failure of the read (load or stat failure, nil
\* stats, a missing, unreadable or malformed stats file such as the cpuset
\* file) the metric has err = true, the fields that were not read are zero,
\* and the record is emitted.
C15_PartialFailureSetsErr ==
    /\ ReadDone /\ PartialFailure =>
          /\ metric.err
          /\ CpusetFailure => metric.cpus = 0
          /\ unit.memoryStat # "ok" => MemoryFieldsZero
    /\ cphase = "emitted" => <<"cgCPUs", metric.cpus>> \in samples

\* C16: a v2 unit whose memory.stat is unreadable while its CPU files are
\* readable is emitted with its CPU fields populated, its memory fields
\* zero and compute_collect_error = 1.
C16_UnreadableMemoryStatV2 ==
    (/\ cphase = "emitted"
     /\ mode = "unified"
     /\ unit.load
     /\ unit.stat \in {"ok", "err"}
     /\ unit.cpuStat = "ok"
     /\ unit.memoryStat = "unreadable")
    => /\ CPUFieldsPopulated
       /\ MemoryFieldsZero
       /\ <<"collectError", 1>> \in samples

\* The memory stats of the unit were read.
MemoryRead == unit.load /\ unit.stat = "ok" /\ unit.memoryStat = "ok"

\* C17: in v1 and v2 a memory limit equal to the all-ones maximum is
\* reported as the host's MemTotal and never as the raw sentinel, whatever
\* the host memory-info map holds.
C17_MaxMemoryLimitIsMemTotal ==
    ReadDone /\ MemoryRead /\ unit.memLimit = MaxUint64 =>
        /\ metric.memoryTotal # MaxUint64
        /\ "MemTotal_bytes" \in DOMAIN hostMemInfo =>
               metric.memoryTotal = hostMemInfo["MemTotal_bytes"]

\* The swap stats of the unit were read.
SwapRead == MemoryRead /\ (mode = "legacy" => unit.swap)

HostSwap == IF "SwapTotal_bytes" \in DOMAIN hostMemInfo
            THEN hostMemInfo["SwapTotal_bytes"] ELSE 0

HostMem == IF "MemTotal_bytes" \in DOMAIN hostMemInfo
           THEN hostMemInfo["MemTotal_bytes"] ELSE 0

\* C18: when the swap limit is the all-ones maximum, memswTotal is the
\* host's SwapTotal if positive, else the host's MemTotal if positive, else
\* the sentinel; any other limit is memswTotal unchanged.
C18_MemswTotalFallback ==
    ReadDone /\ SwapRead =>
        /\ unit.swapLimit = MaxUint64 /\ HostSwap > 0 => metric.memswTotal = HostSwap
        /\ unit.swapLimit = MaxUint64 /\ HostSwap <= 0 /\ HostMem > 0 =>
               metric.memswTotal = HostMem
        /\ unit.swapLimit = MaxUint64 /\ HostSwap <= 0 /\ HostMem <= 0 =>
               metric.memswTotal = MaxUint64
        /\ unit.swapLimit # MaxUint64 => metric.memswTotal = unit.swapLimit

\* C18 witness: a v1 read with the swap limit at the maximum on a host
\* without swap, where memswTotal is the host's MemTotal.
C18_Witness ==
    /\ ReadDone /\ SwapRead
    /\ mode = "legacy"
    /\ unit.swapLimit = MaxUint64
    /\ HostSwap = 0 /\ HostMem > 0
    /\ metric.memswTotal = HostMem

(***************************************************************************)
(* parseCPUSet's contract.                                                 *)
(***************************************************************************)
Parsed == pphase = "parsed"

\* C19: for a string of comma-separated integers and inclusive ranges the
\* number of cpus returned is the cardinality of the set of indices the
\* string denotes, also when ranges overlap or repeat an index.
C19_CpusIsCardinality ==
    Parsed => ~parsed.err /\ Len(parsed.cpus) = Cardinality(denoted)

\* C20: parseCPUSet(format(S)) = S for every non-empty set S of
\* non-negative integers: the cpus returned are the decimal numerals of the
\* elements of S, each once.
C20_ParseFormatRoundTrip ==
    Parsed /\ formatted =>
        /\ ~parsed.err
        /\ Range(parsed.cpus) = {Itoa(n) : n \in denoted}
        /\ Len(parsed.cpus) = Cardinality(denoted)

\* C20 witness: a parsed rendering of a set with a single index, a range
\* and an index of two digits.
C20_Witness ==
    /\ Parsed /\ formatted
    /\ denoted = {0, 2, 3, 4, 10}
    /\ Len(cpuset) = 8
    /\ Len(parsed.cpus) = 5


(***************************************************************************)
(* Target under concurrent health probes, and its frame.                   *)
(***************************************************************************)
\* The backends of the request's cluster that no other thread wrote to
\* since Target was entered and that are alive with a retention period
\* greater than d.
SteadyEligible ==
    {b \in Range(BackendsOf(rid)) :
        b \notin touched /\ alive[b] /\ queryPeriod < retention[b]}

\* C26: if a backend of the cluster stays alive with retention greater than
\* d for the whole of a Target call, the call returns a backend, whatever
\* the health probe does to the other backends meanwhile.
C26_SteadyEligibleIsServed ==
    (Returned /\ SteadyEligible # {}) => target # NIL

\* A step of Target: one of its statements is executed.
TargetStep ==
    /\ pc \in {"target", "scan", "select"}
    /\ <<pc, i, tgtvars, target>>' # <<pc, i, tgtvars, target>>
    /\ touched' = touched

\* C27, frame: no step of Target changes the pool's mapping or a backend's
\* liveness, retention period or connection count.
C27_TargetFrame ==
    [][TargetStep => UNCHANGED <<phase, backends, retention, alive, conns, added>>]_vars

\* C27: Target is read-only, so what it returns is a function of the state
\* it is called on: with no other thread writing meanwhile it returns the
\* backend that ranks first in that state, and the mapping and the
\* backends' retention periods are as the Add calls left them.
C27_TargetReadOnly ==
    /\ phase = "serving" =>
          /\ Len(retention) = Len(added)
          /\ \A id \in IDs : BackendsOf(id) = AddedUnder(added, id)
    /\ (Returned /\ touched = {}) => target = NextRanked(rid, queryPeriod, {})

\* C27 witness: Target has returned a backend of a cluster of two eligible
\* backends, with connections open, and nothing was written meanwhile.
C27_Witness ==
    /\ Returned
    /\ touched = {}
    /\ Len(targetBackends) = 2
    /\ target # NIL
    /\ \E b \in Handles : conns[b] > 0


(***************************************************************************)
(* Update and doUpdate: goroutines, samples.                               *)
(***************************************************************************)
\* doUpdate's loop has started every goroutine.
AllLaunched == uphase # "none" /\ ui > Len(metrics)

\* Update has sent its samples.
Emitted == uphase = "done"

\* C21: in one scrape one goroutine is started per element of metrics,
\* each with its own index; a goroutine writes to the element of its index
\* only; and nothing is sent on the channel, the number of units included,
\* before every goroutine has returned.
C21_OneWorkerPerMetricThenEmit ==
    /\ \A w \in DOMAIN launched : launched[w] = w
    /\ Len(launched) <= Len(metrics)
    /\ AllLaunched => Len(launched) = Len(metrics)
    /\ \A k \in DOMAIN wrote : wrote[k] \subseteq {k}
    /\ uphase \in {"send", "done"} => Range(finished) = DOMAIN metrics
    /\ ~Emitted => ch = {}
    /\ Emitted => <<"numCgs", 0, "", Len(metrics)>> \in ch

\* C21 witness: a scrape of two units has sent its samples, and the
\* goroutine of the second unit returned before that of the first.
C21_Witness ==
    /\ Emitted
    /\ finished = <<2, 1>>
    /\ wrote = <<{1}, {2}>>
    /\ Cardinality(ch) > 1


\* C22: once the deadline of the scrape has passed, the scrape completes:
\* Update sends what it has, whatever the reads still pending do.
C22_DeadlineEndsTheScrape == deadline ~> Emitted

\* The units of the scrape, by uuid.
UnitIDs == DOMAIN metrics

\* The samples sent with the descriptor desc for the unit uuid.
SamplesFor(desc, uuid) == {s \in ch : s[1] = desc /\ s[2] = uuid}

\* C23: for every unit of a scrape a collectError sample with the unit's
\* uuid is sent, of value 1 if the read of the unit set err and of value
\* 0 otherwise.
C23_CollectErrorForEveryUnit ==
    Emitted =>
        \A k \in UnitIDs :
            SamplesFor("collectError", k) =
                {<<"collectError", k, "", IF metrics[k].err THEN 1 ELSE 0>>}

\* The descriptors of the swap, block IO and PSI groups.
SwapDescs == {"cgMemswUsed", "cgMemswTotal", "cgMemswFailCount"}
BlkioDescs ==
    {"cgBlkioReadBytes", "cgBlkioWriteBytes", "cgBlkioReadReqs", "cgBlkioWriteReqs"}
PSIDescs == {"cgCPUPressure", "cgMemoryPressure", "cgBlkioPressure"}

\* The descriptors of the samples sent.
DescsSent == {s[1] : s \in ch}

\* C24: no sample of the swap, block IO or PSI group is sent when the
\* group's flag is off, and with the PSI flag on every unit has its CPU,
\* memory and block IO pressure samples.
C24_GroupsFollowTheirFlags ==
    Emitted =>
        /\ ~opts.collectSwapMemStats => DescsSent \cap SwapDescs = {}
        /\ ~opts.collectBlockIOStats => DescsSent \cap BlkioDescs = {}
        /\ ~opts.collectPSIStats => DescsSent \cap PSIDescs = {}
        /\ opts.collectPSIStats =>
              \A k \in UnitIDs, desc \in PSIDescs : SamplesFor(desc, k) # {}

\* The units whose read found RDMA stats.
RdmaUnits ==
    {k \in UnitIDs : ~ReadFails(readings[k].cgroup) /\ readings[k].rdma}

\* C25: for every unit with an RDMA device the cgRDMAHCAObjects sample of
\* the device carries the device's hca_objects and the cgRDMAHCAHandles
\* sample its hca_handles.
C25_RdmaObjectsAndHandles ==
    Emitted =>
        \A k \in RdmaUnits :
            /\ {s \in SamplesFor("cgRDMAHCAObjects", k) : s[3] = RDMADevice}
                  = {<<"cgRDMAHCAObjects", k, RDMADevice, StatHcaObjects>>}
            /\ {s \in SamplesFor("cgRDMAHCAHandles", k) : s[3] = RDMADevice}
                  = {<<"cgRDMAHCAHandles", k, RDMADevice, StatHcaHandles>>}

(***************************************************************************)
(* Emissions: the cache of the factor of RTE.                              *)
(***************************************************************************)
\* C28: for FRA a scrape asks RTE only when no factor is cached (the
\* cached value is -1) or more than 1800 seconds have passed since the
\* previous request; a scrape that does not ask returns the cached factor
\* and leaves it cached; for another country code RTE is never asked.
C28_RteAskedOnlyWhenStale ==
    /\ countryCode # "FRA" => (~scrape.asked /\ lastRequest = NoRequest)
    /\ scrape.asked =>
          \/ scrape.cached = NoFactor
          \/ (scrape.since # NoRequest /\ scrape.since > CacheSeconds)
    /\ (ephase = "idle" /\ countryCode = "FRA" /\ scrape # NoScrape /\ ~scrape.asked) =>
          /\ scrape.returned = scrape.cached
          /\ prevEmissionFactor = scrape.cached

\* C28 witness: a scrape exactly 1800 seconds after the previous request
\* has returned the cached factor of RTE without asking.
C28_Witness ==
    /\ countryCode = "FRA"
    /\ ephase = "idle"
    /\ ~scrape.asked
    /\ scrape.since = CacheSeconds
    /\ scrape.returned = 50

(***************************************************************************)
(* parseSacctCmdOutput: wall time, goroutines.                             *)
(***************************************************************************)
\* The lines that pass the filters, by position.
JobLines == {k \in DOMAIN sacctOutputLines : PassesFilters(sacctOutputLines[k])}

\* The seconds of the overlap of a job's run, from its start to its end or
\* to the interval's end if it has none, with the interval; 0 for a job
\* that has not started.
OverlapSeconds(jobStartTS, jobEndTS, intStartTS, intEndTS) ==
    IF jobStartTS = 0 THEN 0
    ELSE LET runEnd == IF jobEndTS = 0 THEN intEndTS ELSE jobEndTS
             from == IF jobStartTS > intStartTS THEN jobStartTS ELSE intStartTS
             to == IF runEnd < intEndTS THEN runEnd ELSE intEndTS
         IN  IF to > from THEN (to - from) \div 1000 ELSE 0

\* C29: the TotalWallTime of every parsed job line is the length in
\* seconds of the overlap of the job's run and the fetch interval, and is
\* never negative.
C29_WallTimeIsTheOverlap ==
    jphase = "returned" =>
        \A k \in JobLines :
            /\ jobs[k].TotalWallTime >= 0
            /\ jobs[k].TotalWallTime =
                  OverlapSeconds(jobs[k].StartedAtTS, jobs[k].EndedAtTS,
                                 interval[1], interval[2])

\* C30: parseSacctCmdOutput returns after every goroutine is done; the
\* count it returns is the number of lines that pass the filters, and
\* element i of the slice is the unit of line i, or the zero value if the
\* line was skipped.
C30_ReturnsAfterAllWithCountAndSlots ==
    jphase = "returned" =>
        /\ \A k \in DOMAIN gpc : gpc[k] = "done"
        /\ numJobs = Cardinality(JobLines)
        /\ Len(jobs) = Len(sacctOutputLines)
        /\ \A k \in DOMAIN jobs :
              jobs[k] = IF k \in JobLines
                        THEN JobStat(k, sacctOutputLines[k], interval[1], interval[2])
                        ELSE ZeroUnit

\* C30 witness: the output had a skipped line and then a job's line, both
\* goroutines are done, and parseSacctCmdOutput has returned one job.
C30_Witness ==
    /\ jphase = "returned"
    /\ Len(sacctOutputLines) = 2
    /\ JobLines = {2}
    /\ numJobs = 1
    /\ jobs[1] = ZeroUnit
    /\ jobs[2].UUID = 2

=============================================================================
